---- MODULE Spec2Model ----
(***************************************************************************)
(* Model of the customer service in src/main.py: two FastAPI handlers,     *)
(* create_customer (POST /customers/) and get_customers (GET /customers/), *)
(* each opening its own pyodbc connection to the customers table.          *)
(*                                                                         *)
(* Requests run concurrently (FastAPI runs sync handlers on a thread       *)
(* pool), so every handler is split at its database calls: connect,        *)
(* execute, commit / fetchall.  The database is the environment: each of   *)
(* its calls either succeeds or raises.  pyodbc connections are opened     *)
(* with autocommit off, so an INSERT becomes visible to other connections  *)
(* only at commit; a SELECT reads the committed rows.                      *)
(***************************************************************************)
EXTENDS Integers, Sequences, FiniteSets, TLC

\* Number of requests the service receives in one run.
MaxReqs == 3

Reqs == 1..MaxReqs

\* The email strings of the payloads that are well-formed addresses.
WellFormedEmails == {"ada@example.com"}

\* Inbound JSON bodies of POST /customers/: both fields, or one of them missing.
Payloads ==
    { [name |-> "Ada", email |-> "ada@example.com"],
      [name |-> "Bob", email |-> "not-an-email"],
      [name |-> "Ada"],
      [email |-> "ada@example.com"] }

VARIABLES
    pc,         \* pc[r]: position of request r in its handler
    kind,       \* kind[r]: "POST" or "GET" ("" before the request arrives)
    payload,    \* payload[r]: the JSON body of a POST
    conn,       \* conn[r]: "none", "open" or "closed": the connection of r
    pending,    \* pending[r]: rows inserted on r's connection, not yet committed
    rows,       \* rows[r]: result set of r's SELECT, held by its cursor
    resp,       \* resp[r]: the HTTP response of r
    table,      \* committed rows of the customers table, <<name, email>> each
    writer,     \* writer[i]: the request that committed table[i] (0: pre-existing)
    attempts,   \* attempts[r]: calls of pyodbc.connect made by r
    stmts,      \* stmts[r]: calls of cursor.execute made by r
    commits,    \* commits[r]: calls of conn.commit made by r
    doneBefore, \* doneBefore[r]: POSTs answered with success before GET r arrived
    seen,       \* seen[r]: the committed table at the moment r's SELECT ran
    fault       \* fault[r]: the database call of r that raised ("" if none)

vars == <<pc, kind, payload, conn, pending, rows, resp, table, writer,
          attempts, stmts, commits, doneBefore, seen, fault>>

NoResp == [status |-> 0, body |-> <<>>]

\* FastAPI's response to a body that fails the Customer model.
ValidationError == [status |-> 422, body |-> <<>>]

\* FastAPI's response to an exception raised inside a handler.
ServerError == [status |-> 500, body |-> <<>>]

----------------------------------------------------------------------------
(* Helpers *)

\* Number of positions of sequence s holding x.
Count(x, s) == Cardinality({i \in 1..Len(s) : s[i] = x})

\* All orderings of the rows of sequence s.
Orderings(s) ==
    { [i \in 1..Len(s) |-> s[f[i]]] :
        f \in { g \in [1..Len(s) -> 1..Len(s)] :
                  \A i, j \in 1..Len(s) : i # j => g[i] # g[j] } }

\* Number of rows of the table committed by request r.
RowsBy(r) == Cardinality({i \in 1..Len(writer) : writer[i] = r})

----------------------------------------------------------------------------
(* class Customer(BaseModel): name: str, email: str *)

\* Variant of the model that declares email as a validated address.
CustomerEmailStr(p) ==
    /\ "name" \in DOMAIN p
    /\ "email" \in DOMAIN p
    /\ p.email \in WellFormedEmails

\* Variant of the model whose email field is optional.
CustomerEmailOptional(p) ==
    "name" \in DOMAIN p

\* A body is accepted iff both required string fields are present.
Customer(p) ==
    /\ "name" \in DOMAIN p
    /\ "email" \in DOMAIN p

----------------------------------------------------------------------------
(* Arrival of requests *)

\* Requests are numbered in order of arrival.
NextToArrive(r) ==
    /\ pc[r] = "idle"
    /\ \A q \in Reqs : q < r => pc[q] # "idle"

SucceededPosts ==
    {q \in Reqs : kind[q] = "POST" /\ pc[q] = "done" /\ resp[q].status = 200}

\* POST /customers/ arrives; FastAPI validates the body against Customer
\* and calls create_customer only when it is valid.
ReceivePost(r, p) ==
    /\ NextToArrive(r)
    /\ kind' = [kind EXCEPT ![r] = "POST"]
    /\ payload' = [payload EXCEPT ![r] = p]
    /\ IF Customer(p)
         THEN /\ pc' = [pc EXCEPT ![r] = "connect"]
              /\ resp' = resp
         ELSE /\ pc' = [pc EXCEPT ![r] = "done"]
              /\ resp' = [resp EXCEPT ![r] = ValidationError]
    /\ UNCHANGED <<conn, pending, rows, table, writer, attempts, stmts,
                   commits, doneBefore, seen, fault>>

\* GET /customers/ arrives; get_customers takes no input.
ReceiveGet(r) ==
    /\ NextToArrive(r)
    /\ kind' = [kind EXCEPT ![r] = "GET"]
    /\ doneBefore' = [doneBefore EXCEPT ![r] = SucceededPosts]
    /\ pc' = [pc EXCEPT ![r] = "connect"]
    /\ UNCHANGED <<payload, conn, pending, rows, resp, table, writer,
                   attempts, stmts, commits, seen, fault>>

----------------------------------------------------------------------------
(* get_db_connection: pyodbc.connect(conn_str), called once by each handler *)

\* Variant that tries the connection a second time after a failure.
ConnectRetries(r) ==
    /\ pc[r] = "connect"
    /\ attempts' = [attempts EXCEPT ![r] = @ + 1]
    /\ IF attempts[r] = 0
         THEN UNCHANGED <<pc, resp>>
         ELSE /\ pc' = [pc EXCEPT ![r] = "done"]
              /\ resp' = [resp EXCEPT ![r] = ServerError]
    /\ fault' = [fault EXCEPT ![r] = "connect"]
    /\ UNCHANGED <<kind, payload, conn, pending, rows, table, writer, stmts,
                   commits, doneBefore, seen>>

\* pyodbc.connect raises: the exception leaves the handler, FastAPI answers 500.
ConnectFails(r) ==
    /\ pc[r] = "connect"
    /\ attempts' = [attempts EXCEPT ![r] = @ + 1]
    /\ pc' = [pc EXCEPT ![r] = "done"]
    /\ resp' = [resp EXCEPT ![r] = ServerError]
    /\ fault' = [fault EXCEPT ![r] = "connect"]
    /\ UNCHANGED <<kind, payload, conn, pending, rows, table, writer, stmts,
                   commits, doneBefore, seen>>

\* pyodbc.connect returns a new connection; the handler takes a cursor on it.
get_db_connection(r) ==
    /\ pc[r] = "connect"
    /\ attempts' = [attempts EXCEPT ![r] = @ + 1]
    /\ conn' = [conn EXCEPT ![r] = "open"]
    /\ pc' = [pc EXCEPT ![r] = "execute"]
    /\ UNCHANGED <<kind, payload, pending, rows, resp, table, writer, stmts,
                   commits, doneBefore, seen, fault>>

----------------------------------------------------------------------------
(* create_customer *)

\* Variant that ignores a failed INSERT and goes on to commit.
InsertFailureIgnored(r) ==
    /\ pc[r] = "execute"
    /\ kind[r] = "POST"
    /\ stmts' = [stmts EXCEPT ![r] = @ + 1]
    /\ pc' = [pc EXCEPT ![r] = "commit"]
    /\ fault' = [fault EXCEPT ![r] = "execute"]
    /\ UNCHANGED <<kind, payload, conn, pending, rows, resp, table, writer,
                   attempts, commits, doneBefore, seen>>

\* cursor.execute("INSERT ...") raises (constraint violation, lost link):
\* no row is inserted, the exception leaves the handler before conn.commit().
InsertFails(r) ==
    /\ pc[r] = "execute"
    /\ kind[r] = "POST"
    /\ stmts' = [stmts EXCEPT ![r] = @ + 1]
    /\ pc' = [pc EXCEPT ![r] = "done"]
    /\ resp' = [resp EXCEPT ![r] = ServerError]
    /\ fault' = [fault EXCEPT ![r] = "execute"]
    /\ UNCHANGED <<kind, payload, conn, pending, rows, table, writer,
                   attempts, commits, doneBefore, seen>>

\* Variant that binds the two parameters in the wrong order.
InsertSwapped(r) ==
    /\ pc[r] = "execute"
    /\ kind[r] = "POST"
    /\ stmts' = [stmts EXCEPT ![r] = @ + 1]
    /\ pending' = [pending EXCEPT
                     ![r] = Append(@, <<payload[r].email, payload[r].name>>)]
    /\ pc' = [pc EXCEPT ![r] = "commit"]
    /\ UNCHANGED <<kind, payload, conn, rows, resp, table, writer, attempts,
                   commits, doneBefore, seen, fault>>

\* cursor.execute("INSERT INTO customers (name, email) VALUES (?, ?)",
\*                (customer.name, customer.email)) inside r's transaction.
Insert(r) ==
    /\ pc[r] = "execute"
    /\ kind[r] = "POST"
    /\ stmts' = [stmts EXCEPT ![r] = @ + 1]
    /\ pending' = [pending EXCEPT
                     ![r] = Append(@, <<payload[r].name, payload[r].email>>)]
    /\ pc' = [pc EXCEPT ![r] = "commit"]
    /\ UNCHANGED <<kind, payload, conn, rows, resp, table, writer, attempts,
                   commits, doneBefore, seen, fault>>

\* conn.commit() raises: nothing becomes visible, FastAPI answers 500.
CommitFails(r) ==
    /\ pc[r] = "commit"
    /\ commits' = [commits EXCEPT ![r] = @ + 1]
    /\ pc' = [pc EXCEPT ![r] = "done"]
    /\ resp' = [resp EXCEPT ![r] = ServerError]
    /\ fault' = [fault EXCEPT ![r] = "commit"]
    /\ UNCHANGED <<kind, payload, conn, pending, rows, table, writer,
                   attempts, stmts, doneBefore, seen>>

\* The body create_customer returns.
Created(r) ==
    [status |-> 200,
     body |-> [message |-> "Customer created", name |-> payload[r].name]]

\* Variant whose commit is dropped while another transaction is in flight.
CommitLosesWrite(r) ==
    /\ pc[r] = "commit"
    /\ commits' = [commits EXCEPT ![r] = @ + 1]
    /\ IF \E q \in Reqs \ {r} : pending[q] # <<>>
         THEN UNCHANGED <<table, writer>>
         ELSE /\ table' = table \o pending[r]
              /\ writer' = writer \o [i \in 1..Len(pending[r]) |-> r]
    /\ pending' = [pending EXCEPT ![r] = <<>>]
    /\ pc' = [pc EXCEPT ![r] = "done"]
    /\ resp' = [resp EXCEPT ![r] = Created(r)]
    /\ UNCHANGED <<kind, payload, conn, rows, attempts, stmts,
                   doneBefore, seen, fault>>

\* Variant whose commit replaces the table by the transaction's rows.
CommitOverwrites(r) ==
    /\ pc[r] = "commit"
    /\ commits' = [commits EXCEPT ![r] = @ + 1]
    /\ table' = pending[r]
    /\ writer' = [i \in 1..Len(pending[r]) |-> r]
    /\ pending' = [pending EXCEPT ![r] = <<>>]
    /\ pc' = [pc EXCEPT ![r] = "done"]
    /\ resp' = [resp EXCEPT ![r] = Created(r)]
    /\ UNCHANGED <<kind, payload, conn, rows, attempts, stmts,
                   doneBefore, seen, fault>>

\* Variant that answers without making the insert visible.
ReturnWithoutCommit(r) ==
    /\ pc[r] = "commit"
    /\ pc' = [pc EXCEPT ![r] = "done"]
    /\ resp' = [resp EXCEPT ![r] = Created(r)]
    /\ UNCHANGED <<kind, payload, conn, pending, rows, table, writer,
                   attempts, stmts, commits, doneBefore, seen, fault>>

\* conn.commit() succeeds: the inserted row joins the committed table; then
\* return {"message": "Customer created", "name": customer.name}.
create_customer(r) ==
    /\ pc[r] = "commit"
    /\ commits' = [commits EXCEPT ![r] = @ + 1]
    /\ table' = table \o pending[r]
    /\ writer' = writer \o [i \in 1..Len(pending[r]) |-> r]
    /\ pending' = [pending EXCEPT ![r] = <<>>]
    /\ pc' = [pc EXCEPT ![r] = "done"]
    /\ resp' = [resp EXCEPT ![r] = Created(r)]
    /\ UNCHANGED <<kind, payload, conn, rows, attempts, stmts,
                   doneBefore, seen, fault>>

----------------------------------------------------------------------------
(* get_customers *)

\* cursor.execute("SELECT ...") raises: FastAPI answers 500.
SelectFails(r) ==
    /\ pc[r] = "execute"
    /\ kind[r] = "GET"
    /\ stmts' = [stmts EXCEPT ![r] = @ + 1]
    /\ pc' = [pc EXCEPT ![r] = "done"]
    /\ resp' = [resp EXCEPT ![r] = ServerError]
    /\ fault' = [fault EXCEPT ![r] = "execute"]
    /\ UNCHANGED <<kind, payload, conn, pending, rows, table, writer,
                   attempts, commits, doneBefore, seen>>

\* cursor.execute("SELECT name, email FROM customers"): the result set is
\* the rows committed at this moment.
Select(r) ==
    /\ pc[r] = "execute"
    /\ kind[r] = "GET"
    /\ stmts' = [stmts EXCEPT ![r] = @ + 1]
    /\ rows' = [rows EXCEPT ![r] = table]
    /\ pc' = [pc EXCEPT ![r] = "fetch"]
    /\ seen' = [seen EXCEPT ![r] = table]
    /\ UNCHANGED <<kind, payload, conn, pending, resp, table, writer,
                   attempts, commits, doneBefore, fault>>

\* cursor.fetchall() raises: FastAPI answers 500.
FetchFails(r) ==
    /\ pc[r] = "fetch"
    /\ pc' = [pc EXCEPT ![r] = "done"]
    /\ resp' = [resp EXCEPT ![r] = ServerError]
    /\ fault' = [fault EXCEPT ![r] = "fetch"]
    /\ UNCHANGED <<kind, payload, conn, pending, rows, table, writer,
                   attempts, stmts, commits, doneBefore, seen>>

\* Variant that leaves the last fetched row out of the answer.
ListingShort(rs) ==
    [i \in 1..(IF Len(rs) = 0 THEN 0 ELSE Len(rs) - 1) |->
        [name |-> rs[i][1], email |-> rs[i][2]]]

\* [{"name": row[0], "email": row[1]} for row in rows]
Listing(rs) ==
    [i \in 1..Len(rs) |-> [name |-> rs[i][1], email |-> rs[i][2]]]

\* rows = cursor.fetchall() delivers the result set in an order of the
\* database's choosing (no ORDER BY); return the listing of the rows.
get_customers(r) ==
    /\ pc[r] = "fetch"
    /\ pc' = [pc EXCEPT ![r] = "done"]
    /\ \E o \in Orderings(rows[r]) :
         resp' = [resp EXCEPT ![r] = [status |-> 200, body |-> Listing(o)]]
    /\ UNCHANGED <<kind, payload, conn, pending, rows, table, writer,
                   attempts, stmts, commits, doneBefore, seen, fault>>

----------------------------------------------------------------------------
(* The connection object after the handler *)

\* Neither handler calls conn.close(): the connection stays open until the
\* Python runtime finalises the Connection object, some time after the
\* handler's frame is gone; pyodbc then rolls back what was not committed.
Finalize(r) ==
    /\ pc[r] = "done"
    /\ conn[r] = "open"
    /\ conn' = [conn EXCEPT ![r] = "closed"]
    /\ pending' = [pending EXCEPT ![r] = <<>>]
    /\ UNCHANGED <<pc, kind, payload, rows, resp, table, writer, attempts,
                   stmts, commits, doneBefore, seen, fault>>

----------------------------------------------------------------------------
(* Specification *)

Init ==
    /\ pc = [r \in Reqs |-> "idle"]
    /\ kind = [r \in Reqs |-> ""]
    /\ payload = [r \in Reqs |-> <<>>]
    /\ conn = [r \in Reqs |-> "none"]
    /\ pending = [r \in Reqs |-> <<>>]
    /\ rows = [r \in Reqs |-> <<>>]
    /\ resp = [r \in Reqs |-> NoResp]
    /\ table = <<>>
    /\ writer = [i \in 1..Len(table) |-> 0]
    /\ attempts = [r \in Reqs |-> 0]
    /\ stmts = [r \in Reqs |-> 0]
    /\ commits = [r \in Reqs |-> 0]
    /\ doneBefore = [r \in Reqs |-> {}]
    /\ seen = [r \in Reqs |-> <<>>]
    /\ fault = [r \in Reqs |-> ""]

Next ==
    \/ \E r \in Reqs : \E p \in Payloads : ReceivePost(r, p)
    \/ \E r \in Reqs : ReceiveGet(r)
    \/ \E r \in Reqs : get_db_connection(r)
    \/ \E r \in Reqs : ConnectFails(r)
    \/ \E r \in Reqs : Insert(r)
    \/ \E r \in Reqs : InsertFails(r)
    \/ \E r \in Reqs : create_customer(r)
    \/ \E r \in Reqs : CommitFails(r)
    \/ \E r \in Reqs : Select(r)
    \/ \E r \in Reqs : SelectFails(r)
    \/ \E r \in Reqs : get_customers(r)
    \/ \E r \in Reqs : FetchFails(r)
    \/ \E r \in Reqs : Finalize(r)

Spec == Init /\ [][Next]_vars

----------------------------------------------------------------------------
(* Properties *)

Posts == {r \in Reqs : kind[r] = "POST"}
Gets == {r \in Reqs : kind[r] = "GET"}

\* GETs that were answered with success.
ListedGets == {g \in Gets : pc[g] = "done" /\ resp[g].status = 200}

\* The row and the listed pair of the payload of POST p.
RowOf(p) == <<payload[p].name, payload[p].email>>
PairOf(p) == [name |-> payload[p].name, email |-> payload[p].email]

\* POSTs whose body carries an email string that is not a well-formed address.
MalformedEmailPosts ==
    {r \in Posts : "email" \in DOMAIN payload[r]
                   /\ payload[r].email \notin WellFormedEmails}

\* POSTs whose body lacks the name field or the email field.
IncompletePosts ==
    {r \in Posts : "name" \notin DOMAIN payload[r]
                   \/ "email" \notin DOMAIN payload[r]}

\* C1 as stated: a GET that arrives after a POST was answered with success
\* lists the POST's (name, email) pair exactly once.
C1_ListedExactlyOnce ==
    \A g \in ListedGets : \A p \in doneBefore[g] :
        Count(PairOf(p), resp[g].body) = 1

\* C1 amended: a GET that arrives after a POST was answered with success
\* lists the POST's pair at least once, and as many times as the table holds
\* a row with that pair when the SELECT runs: exactly once only if no other
\* row carries the same pair.
C1_ListedAtLeastOnce ==
    \A g \in ListedGets : \A p \in doneBefore[g] :
        /\ Count(PairOf(p), resp[g].body) >= 1
        /\ Count(PairOf(p), resp[g].body) = Count(RowOf(p), seen[g])

\* A GET answered after two earlier successful POSTs of the same pair.
C1_Witness ==
    \E g \in ListedGets : \E p, q \in doneBefore[g] :
        p # q /\ PairOf(p) = PairOf(q) /\ Count(PairOf(p), resp[g].body) = 2

C3_IncompleteRejected ==
    \A r \in IncompletePosts :
        /\ pc[r] = "done"
        /\ resp[r] = ValidationError
        /\ attempts[r] = 0
        /\ conn[r] = "none"
        /\ stmts[r] = 0
        /\ commits[r] = 0
        /\ RowsBy(r) = 0

\* Both kinds of incomplete body were rejected while the table holds a row.
C3_Witness ==
    /\ \E r \in IncompletePosts : "name" \notin DOMAIN payload[r]
    /\ \E r \in IncompletePosts : "email" \notin DOMAIN payload[r]
    /\ Len(table) > 0

\* POSTs answered with success.
CreatedPosts == {p \in Posts : pc[p] = "done" /\ resp[p].status = 200}

\* C4: concurrent POSTs do not interfere.  Whatever the other requests are
\* doing, the next step of a POST inside its handler can succeed (no request
\* waits for another); every POST answered with success has its row in the
\* table; and a GET that arrives afterwards lists the pair of each of them,
\* once per such POST.
C4_NoLostWrites ==
    /\ \A r \in Posts :
         /\ pc[r] = "connect" => ENABLED get_db_connection(r)
         /\ pc[r] = "execute" => ENABLED Insert(r)
         /\ pc[r] = "commit" => ENABLED create_customer(r)
    /\ \A p \in CreatedPosts :
         \E i \in 1..Len(table) : writer[i] = p /\ table[i] = RowOf(p)
    /\ \A g \in ListedGets : \A p \in doneBefore[g] :
         Count(PairOf(p), resp[g].body)
           >= Cardinality({q \in doneBefore[g] : PairOf(q) = PairOf(p)})

\* Two POSTs with distinct payloads overlapped (the later arrival committed
\* first), both were answered with success, and a later GET lists both.
C4_Witness ==
    \E g \in ListedGets : \E p, q \in doneBefore[g] :
        /\ p < q
        /\ PairOf(p) # PairOf(q)
        /\ \E i, j \in 1..Len(writer) : i < j /\ writer[i] = q /\ writer[j] = p
        /\ Count(PairOf(p), resp[g].body) = 1
        /\ Count(PairOf(q), resp[g].body) = 1

\* C5: a successful GET lists one {name, email} pair per row the table held
\* when the SELECT ran, no more and no fewer; emptiness of the result is no
\* obstacle to a successful answer.
C5_ListsExactlyTheRows ==
    /\ \A g \in ListedGets :
         /\ Len(resp[g].body) = Len(seen[g])
         /\ \A i \in 1..Len(seen[g]) :
              Count([name |-> seen[g][i][1], email |-> seen[g][i][2]], resp[g].body)
                = Count(seen[g][i], seen[g])
         /\ seen[g] = <<>> => resp[g].body = <<>>
    /\ \A g \in Gets : pc[g] = "fetch" => ENABLED get_customers(g)

\* A GET answered on a table of two different rows, listed in the other order.
C5_Witness ==
    \E g \in ListedGets :
        /\ Len(seen[g]) = 2
        /\ seen[g][1] # seen[g][2]
        /\ resp[g].body[1] = [name |-> seen[g][2][1], email |-> seen[g][2][2]]

\* C6: a request whose connection attempt failed has ended with an error
\* response after that single attempt, without executing a statement or a
\* commit and without a row in the table.
C6_ConnectFailureSurfaces ==
    \A r \in Reqs :
        fault[r] = "connect" =>
            /\ pc[r] = "done"
            /\ resp[r] = ServerError
            /\ attempts[r] = 1
            /\ stmts[r] = 0
            /\ commits[r] = 0
            /\ conn[r] = "none"
            /\ RowsBy(r) = 0

\* A POST and a GET both ended on a failed connection attempt.
C6_Witness ==
    /\ \E r \in Posts : fault[r] = "connect" /\ pc[r] = "done"
    /\ \E r \in Gets : fault[r] = "connect" /\ pc[r] = "done"

\* C7: a POST answered with success gets {"message": "Customer created",
\* "name": n} with n the name of its own payload, and its insert has been
\* committed by then.
C7_EchoAfterCommit ==
    \A r \in Posts :
        resp[r].status = 200 =>
            /\ resp[r].body = [message |-> "Customer created", name |-> payload[r].name]
            /\ commits[r] = 1
            /\ \E i \in 1..Len(table) : writer[i] = r /\ table[i] = RowOf(r)

\* Two overlapping POSTs with different names were both answered with success.
C7_Witness ==
    \E p, q \in CreatedPosts :
        /\ p < q
        /\ payload[p].name # payload[q].name
        /\ \E i, j \in 1..Len(writer) : i < j /\ writer[i] = q /\ writer[j] = p

\* C8: once a request has ended, the connection it opened is closed.
C8_ConnectionClosedAtEnd ==
    \A r \in Reqs : pc[r] = "done" => conn[r] # "open"

\* C9: a POST whose INSERT raised has ended with a 500 response, never
\* called commit, and has no row in the table (nor one waiting to be
\* committed): every pair a GET lists is a row of some other writer.
C9_InsertFailureWritesNothing ==
    \A r \in Posts :
        fault[r] = "execute" =>
            /\ pc[r] = "done"
            /\ resp[r] = ServerError
            /\ commits[r] = 0
            /\ pending[r] = <<>>
            /\ RowsBy(r) = 0
            /\ \A g \in ListedGets :
                 Len(resp[g].body) <= Cardinality({i \in 1..Len(writer) : writer[i] # r})

\* A POST's INSERT raised while another POST's row is in the table and listed.
C9_Witness ==
    /\ \E r \in Posts : fault[r] = "execute" /\ pc[r] = "done"
    /\ \E g \in ListedGets : Len(resp[g].body) = 1

\* Request r ends in this step with a success response.
Succeeds(r) ==
    pc[r] # "done" /\ pc'[r] = "done" /\ resp'[r].status = 200

\* C10: rows are never updated or deleted.  A step in which a POST ends with
\* success appends exactly its row (name, email) to the table; every other
\* step (of a GET, of a failing POST, of any arrival) leaves the table as it
\* is.
C10_Step ==
    /\ \A r \in Posts : Succeeds(r) => table' = Append(table, RowOf(r))
    /\ table' # table => \E r \in Posts : Succeeds(r)

C10_TableOnlyGrows == [][C10_Step]_vars

\* The table holds two rows and a GET has been answered.
C10_Witness ==
    Len(table) = 2 /\ ListedGets # {}

====
